---- MODULE Spec2Model ----
(***************************************************************************)
(* LocalFiles MCP server (src/app.py): configuration loading, the path    *)
(* guard, the file policy, directory listing and file reading, modelled   *)
(* over a small POSIX filesystem.                                          *)
(*                                                                         *)
(* A string is a sequence of one-character strings; a path is handled as   *)
(* pathlib handles it: split on "/", with empty and "." segments dropped.  *)
(* A filesystem is a function from absolute segment sequences to nodes.    *)
(***************************************************************************)
EXTENDS Integers, Sequences, FiniteSets, TLC

VARIABLES
    environ,      \* process environment: key -> None or a string
    dotenv,       \* the .env file of the working directory
    fs,           \* filesystem: node path -> [kind, target, data]
    loopRaises,   \* platform: Path.resolve() raises on a symlink loop (Python <= 3.12)
    racing,       \* an external process may act between the steps of a call
    pc,           \* position of the call in progress
    op,           \* the operation called
    arg,          \* its argument
    config,       \* the call's local config
    result,       \* the returned mapping, or the fault raised
    readFrom,     \* node the content was read from (lf_read_file)
    readBytes     \* bytes the content was made of   (lf_read_file)

vars == <<environ, dotenv, fs, loopRaises, racing, pc, op, arg, config, result,
          readFrom, readBytes>>

-----------------------------------------------------------------------------
(* Bounds *)

MaxPathLen == 6
MaxNameLen == 4
MaxDataLen == 3
MaxValueLen == 2
MaxSymlinks == 3

-----------------------------------------------------------------------------
(* Strings *)

None == "None"

RECURSIVE StringsUpTo(_, _)
StringsUpTo(chars, n) ==
    IF n = 0 THEN {<<>>}
    ELSE LET shorter == StringsUpTo(chars, n - 1)
         IN shorter \cup {Append(s, c) : s \in {t \in shorter : Len(t) = n - 1}, c \in chars}

IsPrefixOf(p, s) == Len(p) <= Len(s) /\ SubSeq(s, 1, Len(p)) = p

\* str.split(sep): the pieces between the separators, empty pieces kept
RECURSIVE SplitFrom(_, _, _, _)
SplitFrom(s, sep, i, cur) ==
    IF i > Len(s) THEN <<cur>>
    ELSE IF s[i] = sep THEN <<cur>> \o SplitFrom(s, sep, i + 1, <<>>)
    ELSE SplitFrom(s, sep, i + 1, Append(cur, s[i]))

Split(s, sep) == SplitFrom(s, sep, 1, <<>>)

RECURSIVE LStrip(_, _)
LStrip(s, chars) ==
    IF s # <<>> /\ Head(s) \in chars THEN LStrip(Tail(s), chars) ELSE s

RECURSIVE RStrip(_, _)
RStrip(s, chars) ==
    IF s # <<>> /\ s[Len(s)] \in chars THEN RStrip(SubSeq(s, 1, Len(s) - 1), chars) ELSE s

\* str.strip(chars)
StripChars(s, chars) == RStrip(LStrip(s, chars), chars)

\* str.strip()
Strip(s) == StripChars(s, {" "})

-----------------------------------------------------------------------------
(* pathlib: parsing *)

DotDot == <<".", ".">>

IsAbs(s) == s # <<>> /\ s[1] = "/"

\* PurePosixPath(s).parts without the anchor
Segments(s) == SelectSeq(Split(s, "/"), LAMBDA x : x # <<>> /\ x # <<".">>)

Parent(p) == IF p = <<>> THEN <<>> ELSE SubSeq(p, 1, Len(p) - 1)

\* the process's working directory
Cwd == <<>>

\* PurePath.name
NameOf(s) == LET segs == Segments(s) IN IF segs = <<>> THEN <<>> ELSE segs[Len(segs)]

RECURSIVE RFind(_, _, _)
RFind(s, c, i) == IF i = 0 THEN 0 ELSE IF s[i] = c THEN i ELSE RFind(s, c, i - 1)

\* PurePath.suffix of a name
Suffix(name) ==
    LET i == RFind(name, ".", Len(name))
    IN IF 1 < i /\ i < Len(name) THEN SubSeq(name, i, Len(name)) ELSE <<>>

UpperCase == <<"A", "B", "C", "D", "E", "F", "G", "H", "I", "J", "K", "L", "M",
               "N", "O", "P", "Q", "R", "S", "T", "U", "V", "W", "X", "Y", "Z">>
LowerCase == <<"a", "b", "c", "d", "e", "f", "g", "h", "i", "j", "k", "l", "m",
               "n", "o", "p", "q", "r", "s", "t", "u", "v", "w", "x", "y", "z">>

LowerChar(c) ==
    IF \E i \in 1..26 : UpperCase[i] = c
    THEN LowerCase[CHOOSE i \in 1..26 : UpperCase[i] = c]
    ELSE c

\* str.lower()
Lower(s) == [i \in 1..Len(s) |-> LowerChar(s[i])]

-----------------------------------------------------------------------------
(* The filesystem *)

NoNode == [kind |-> "none", target |-> <<>>, data |-> <<>>]
Dir == [kind |-> "dir", target |-> <<>>, data |-> <<>>]
File(bytes) == [kind |-> "file", target |-> <<>>, data |-> bytes]
Link(to) == [kind |-> "link", target |-> to, data |-> <<>>]

Kind(f, p) ==
    IF p = <<>> THEN "dir" ELSE IF p \in DOMAIN f THEN f[p].kind ELSE "none"

\* the kernel's path walk behind stat(): every component must exist, symbolic
\* links are followed, at most MaxSymlinks of them
RECURSIVE Namei(_, _, _, _)
Namei(f, cur, rest, fuel) ==
    IF rest = <<>> THEN [err |-> "OK", path |-> cur]
    ELSE IF Kind(f, cur) # "dir"
    THEN [err |-> IF Kind(f, cur) = "none" THEN "ENOENT" ELSE "ENOTDIR", path |-> cur]
    ELSE LET name == Head(rest)
             np == Append(cur, name)
         IN IF name = DotDot THEN Namei(f, Parent(cur), Tail(rest), fuel)
            ELSE IF Kind(f, np) = "none" THEN [err |-> "ENOENT", path |-> np]
            ELSE IF Kind(f, np) = "link"
            THEN IF fuel = 0 THEN [err |-> "ELOOP", path |-> np]
                 ELSE Namei(f, IF IsAbs(f[np].target) THEN <<>> ELSE cur,
                            Segments(f[np].target) \o Tail(rest), fuel - 1)
            ELSE Namei(f, np, Tail(rest), fuel)

\* os.stat(path) of a path string
Stat(f, s) == Namei(f, IF IsAbs(s) THEN <<>> ELSE Cwd, Segments(s), MaxSymlinks)

\* Path.exists(), Path.is_file(), Path.is_dir(): a failed stat gives False
Exists(f, s) == Stat(f, s).err = "OK"
IsFile(f, s) == LET st == Stat(f, s) IN st.err = "OK" /\ Kind(f, st.path) = "file"
IsDir(f, s) == LET st == Stat(f, s) IN st.err = "OK" /\ Kind(f, st.path) = "dir"

\* posixpath._joinrealpath, strict=False: (path, ok); ok is False on a symlink loop
RECURSIVE Joinrealpath(_, _, _, _)
Joinrealpath(f, path, rest, active) ==
    IF rest = <<>> THEN [path |-> path, ok |-> TRUE]
    ELSE LET name == Head(rest)
             newpath == Append(path, name)
         IN IF name = DotDot THEN Joinrealpath(f, Parent(path), Tail(rest), active)
            ELSE IF Kind(f, newpath) # "link"
            THEN Joinrealpath(f, newpath, Tail(rest), active)
            ELSE IF newpath \in active
            THEN [path |-> newpath \o Tail(rest), ok |-> FALSE]
            ELSE LET to == f[newpath].target
                     r == Joinrealpath(f, IF IsAbs(to) THEN <<>> ELSE path,
                                       Segments(to), active \cup {newpath})
                 IN IF r.ok THEN Joinrealpath(f, r.path, Tail(rest), active)
                    ELSE [path |-> r.path \o Tail(rest), ok |-> FALSE]

\* posixpath.normpath of an absolute path: ".." collapsed lexically
RECURSIVE Normpath(_, _)
Normpath(done, rest) ==
    IF rest = <<>> THEN done
    ELSE IF Head(rest) = DotDot THEN Normpath(Parent(done), Tail(rest))
    ELSE Normpath(Append(done, Head(rest)), Tail(rest))

\* Path(s).resolve(): the canonical absolute path; raised on a symlink loop
\* where the platform's resolve() checks for one
Resolve(f, s, raises) ==
    LET r == Joinrealpath(f, IF IsAbs(s) THEN <<>> ELSE Cwd, Segments(s), {})
        p == Normpath(<<>>, r.path)
    IN [raised |-> raises /\ Namei(f, <<>>, p, MaxSymlinks).err = "ELOOP", path |-> p]

\* str(path) of an absolute path
RECURSIVE Str(_)
Str(p) == IF p = <<>> THEN <<"/">>
          ELSE IF Len(p) = 1 THEN <<"/">> \o p[1]
          ELSE Str(Parent(p)) \o <<"/">> \o p[Len(p)]

\* a faulty variant: containment tested on the strings, as str.startswith
relative_to_startswith(p, other) == IsPrefixOf(Str(other), Str(p))

\* PurePath.relative_to(other) does not raise ValueError: other's parts lead p's
relative_to(p, other) ==
    Len(other) <= Len(p) /\ SubSeq(p, 1, Len(other)) = other

-----------------------------------------------------------------------------
(* src/app.py *)

\* the loop of is_path_allowed over config['allowed_directories'], from index i
RECURSIVE AllowedFrom(_, _, _, _, _)
AllowedFrom(file_path, dirs, i, f, raises) ==
    IF i > Len(dirs) THEN [raised |-> FALSE, allowed |-> FALSE]
    ELSE LET allowed_path == Resolve(f, dirs[i], raises)
         IN IF allowed_path.raised THEN [raised |-> TRUE, allowed |-> FALSE]
            ELSE IF relative_to(file_path, allowed_path.path)
            THEN [raised |-> FALSE, allowed |-> TRUE]
            ELSE AllowedFrom(file_path, dirs, i + 1, f, raises)

is_path_allowed(file_path, cfg, f, raises) ==
    LET p == Resolve(f, file_path, raises)
    IN IF p.raised THEN [raised |-> TRUE, allowed |-> FALSE]
       ELSE AllowedFrom(p.path, cfg.allowed_directories, 1, f, raises)

Size(f, p) == Len(f[p].data)

Elems(list) == {list[i] : i \in 1..Len(list)}

is_file_allowed(file_path, cfg, f) ==
    LET st == Stat(f, file_path)
    IN IF st.err # "OK" THEN FALSE
       ELSE IF Size(f, st.path) > cfg.max_file_size THEN FALSE
       ELSE IF /\ cfg.allowed_extensions # <<>>
               /\ Lower(Suffix(NameOf(file_path))) \notin Elems(cfg.allowed_extensions)
       THEN FALSE
       ELSE TRUE

Keys == {"ALLOWED_DIRECTORIES", "MAX_FILE_SIZE", "ALLOWED_EXTENSIONS"}

Unset == [set |-> FALSE, value |-> <<>>]
SetTo(v) == [set |-> TRUE, value |-> v]

NoDotenv == [state |-> "absent", lines |-> <<>>]
BadDotenv == [state |-> "unreadable", lines |-> <<>>]
Dotenv(lines) == [state |-> "file", lines |-> lines]

DefaultConfig ==
    [allowed_directories |-> <<>>,
     max_file_size |-> 10 * 1024 * 1024,
     allowed_extensions |->
        << <<".", "t", "x", "t">>, <<".", "m", "d">>, <<".", "p", "y">>,
           <<".", "j", "s">>, <<".", "j", "s", "o", "n">>,
           <<".", "y", "a", "m", "l">>, <<".", "y", "m", "l">>,
           <<".", "c", "s", "v">>, <<".", "x", "m", "l">>,
           <<".", "h", "t", "m", "l">>, <<".", "c", "s", "s">> >>]

\* [d.strip() for d in value.split(',') if d.strip()]
RECURSIVE StripEach(_)
StripEach(pieces) ==
    IF pieces = <<>> THEN <<>> ELSE <<Strip(Head(pieces))>> \o StripEach(Tail(pieces))

ParseList(value) == SelectSeq(StripEach(Split(value, ",")), LAMBDA d : d # <<>>)

Digits == <<"0", "1", "2", "3", "4", "5", "6", "7", "8", "9">>
IsDigit(c) == \E i \in 1..10 : Digits[i] = c
DigitValue(c) == (CHOOSE i \in 1..10 : Digits[i] = c) - 1

RECURSIVE Decimal(_)
Decimal(s) == IF s = <<>> THEN 0
              ELSE 10 * Decimal(SubSeq(s, 1, Len(s) - 1)) + DigitValue(s[Len(s)])

\* int(value): surrounding blanks dropped, then decimal digits; else ValueError
IntParses(value) ==
    LET t == Strip(value) IN t # <<>> /\ \A i \in 1..Len(t) : IsDigit(t[i])
IntOf(value) == Decimal(Strip(value))

Loaded(cfg) == [raised |-> FALSE, fault |-> None, config |-> cfg]
Fault(what) == [raised |-> TRUE, fault |-> what, config |-> DefaultConfig]

\* one KEY=value line of .env applied to the config loaded so far
ApplyLine(acc, line) ==
    LET value == StripChars(Strip(line.value), {"\"", "'"})
    IN IF acc.raised THEN acc
       ELSE IF line.key = "ALLOWED_DIRECTORIES"
       THEN Loaded([acc.config EXCEPT !.allowed_directories = ParseList(value)])
       ELSE IF line.key = "MAX_FILE_SIZE"
       THEN IF IntParses(value)
            THEN Loaded([acc.config EXCEPT !.max_file_size = IntOf(value)])
            ELSE Fault("ValueError MAX_FILE_SIZE")
       ELSE IF line.key = "ALLOWED_EXTENSIONS"
       THEN Loaded([acc.config EXCEPT !.allowed_extensions = ParseList(value)])
       ELSE acc

RECURSIVE ApplyLines(_, _)
ApplyLines(acc, lines) ==
    IF lines = <<>> THEN acc ELSE ApplyLines(ApplyLine(acc, Head(lines)), Tail(lines))

\* os.getenv(key) is truthy: the variable is set to a non-empty string
getenv_truthy(env, key) == env[key].set /\ env[key].value # <<>>

\* the three overrides from the environment, in the order of the code
ApplyEnviron(acc, env) ==
    IF acc.raised THEN acc
    ELSE LET c1 == IF getenv_truthy(env, "ALLOWED_DIRECTORIES")
                   THEN [acc.config EXCEPT !.allowed_directories =
                            ParseList(env["ALLOWED_DIRECTORIES"].value)]
                   ELSE acc.config
         IN IF getenv_truthy(env, "MAX_FILE_SIZE") /\ ~IntParses(env["MAX_FILE_SIZE"].value)
            THEN Fault("ValueError MAX_FILE_SIZE")
            ELSE LET c2 == IF getenv_truthy(env, "MAX_FILE_SIZE")
                           THEN [c1 EXCEPT !.max_file_size = IntOf(env["MAX_FILE_SIZE"].value)]
                           ELSE c1
                 IN Loaded(IF getenv_truthy(env, "ALLOWED_EXTENSIONS")
                           THEN [c2 EXCEPT !.allowed_extensions =
                                    ParseList(env["ALLOWED_EXTENSIONS"].value)]
                           ELSE c2)

load_config(env, file) ==
    IF file.state = "unreadable" THEN Fault("OSError .env")
    ELSE ApplyEnviron(ApplyLines(Loaded(DefaultConfig), file.lines), env)

\* str(Path(s)): the segments joined again, "." for the empty relative path
RECURSIVE JoinSegs(_)
JoinSegs(segs) ==
    IF segs = <<>> THEN <<>>
    ELSE IF Len(segs) = 1 THEN segs[1]
    ELSE segs[1] \o <<"/">> \o JoinSegs(Tail(segs))

StrOf(abs, segs) ==
    IF segs = <<>> THEN (IF abs THEN <<"/">> ELSE <<".">>)
    ELSE (IF abs THEN <<"/">> ELSE <<>>) \o JoinSegs(segs)

PathStr(s) == StrOf(IsAbs(s), Segments(s))

RECURSIVE SetToSeq(_)
SetToSeq(S) ==
    IF S = {} THEN <<>>
    ELSE LET x == CHOOSE y \in S : TRUE IN <<x>> \o SetToSeq(S \ {x})

\* path.rglob('*'): every entry below the directory, as segments relative to
\* it; directories are descended into, symbolic links to directories are not
rglob(f, dir_path) ==
    LET base == Stat(f, dir_path).path
        below == {n \in DOMAIN f :
                     /\ Kind(f, n) # "none"
                     /\ Len(n) > Len(base)
                     /\ SubSeq(n, 1, Len(base)) = base
                     /\ \A k \in (Len(base) + 1)..(Len(n) - 1) :
                            Kind(f, SubSeq(n, 1, k)) = "dir"}
    IN SetToSeq({SubSeq(n, Len(base) + 1, Len(n)) : n \in below})

\* the entry of one listed file
FileEntry(f, dir_path, rel) ==
    LET file_path == StrOf(IsAbs(dir_path), Segments(dir_path) \o rel)
    IN [name |-> rel[Len(rel)],
        path |-> file_path,
        relative_path |-> JoinSegs(rel),
        size |-> Size(f, Stat(f, file_path).path),
        extension |-> Suffix(rel[Len(rel)])]

RECURSIVE DirFiles(_, _, _, _)
DirFiles(f, dir_path, rels, cfg) ==
    IF rels = <<>> THEN <<>>
    ELSE LET file_path == StrOf(IsAbs(dir_path), Segments(dir_path) \o Head(rels))
             rest == DirFiles(f, dir_path, Tail(rels), cfg)
         IN IF IsFile(f, file_path) /\ is_file_allowed(file_path, cfg, f)
            THEN <<FileEntry(f, dir_path, Head(rels))>> \o rest
            ELSE rest

\* the body of the loop of lf_list_files for one directory
ScanDirectory(f, dir_path, cfg) ==
    IF ~Exists(f, dir_path)
    THEN [directory |-> dir_path, error |-> "Directory does not exist"]
    ELSE IF ~IsDir(f, dir_path)
    THEN [directory |-> dir_path, error |-> "Path is not a directory"]
    ELSE LET dir_files == DirFiles(f, dir_path, rglob(f, dir_path), cfg)
         IN [directory |-> dir_path, files |-> dir_files, total_files |-> Len(dir_files)]

\* a faulty variant: the loop left at the first directory that fails
RECURSIVE ScanUntilError(_, _, _)
ScanUntilError(f, dirs, cfg) ==
    IF dirs = <<>> THEN <<>>
    ELSE LET r == ScanDirectory(f, Head(dirs), cfg)
         IN IF "error" \in DOMAIN r THEN <<r>>
            ELSE <<r>> \o ScanUntilError(f, Tail(dirs), cfg)

\* the loop of lf_list_files over directories_to_scan
RECURSIVE ScanAll(_, _, _)
ScanAll(f, dirs, cfg) ==
    IF dirs = <<>> THEN <<>>
    ELSE <<ScanDirectory(f, Head(dirs), cfg)>> \o ScanAll(f, Tail(dirs), cfg)

Returned(r) == [raised |-> FALSE, value |-> r]
Raise(what) == [raised |-> TRUE, value |-> [fault |-> what]]

NotConfigured == [error |-> "No allowed directories configured"]

\* lf_list_files(directory_path): what it returns or raises
list_files(directory_path, env, file, f, raises) ==
    LET loaded == load_config(env, file)
        cfg == loaded.config
        guard == is_path_allowed(directory_path, cfg, f, raises)
        files_info == ScanAll(f, IF directory_path # <<>> THEN <<directory_path>>
                                 ELSE cfg.allowed_directories, cfg)
    IN IF loaded.raised THEN Raise(loaded.fault)
       ELSE IF cfg.allowed_directories = <<>> THEN Returned(NotConfigured)
       ELSE IF directory_path # <<>> /\ guard.raised THEN Raise("RuntimeError Symlink loop")
       ELSE IF directory_path # <<>> /\ ~guard.allowed
       THEN Returned([error |-> "Directory is not in allowed directories",
                      path |-> directory_path])
       ELSE Returned([allowed_directories |-> cfg.allowed_directories,
                      directories |-> files_info,
                      total_directories |-> Len(files_info)])

\* a faulty variant: the status taken from the wrong list
StatusOfExtensions(cfg) ==
    IF cfg.allowed_extensions # <<>> THEN "configured" ELSE "not_configured"

StatusOf(cfg) ==
    IF cfg.allowed_directories # <<>> THEN "configured" ELSE "not_configured"

\* lf_get_config(): what it returns or raises
get_config(env, file) ==
    LET loaded == load_config(env, file)
    IN IF loaded.raised THEN Raise(loaded.fault)
       ELSE Returned([allowed_directories |-> loaded.config.allowed_directories,
                      max_file_size |-> loaded.config.max_file_size,
                      allowed_extensions |-> loaded.config.allowed_extensions,
                      status |-> StatusOf(loaded.config)])

\* a faulty variant: existence tested before the path guard
read_file_exists_first(file_path, loaded, f, raises) ==
    LET guard == is_path_allowed(file_path, loaded.config, f, raises)
    IN IF loaded.raised THEN Raise(loaded.fault)
       ELSE IF loaded.config.allowed_directories = <<>> THEN Returned(NotConfigured)
       ELSE IF ~Exists(f, file_path) THEN Returned([error |-> "File does not exist."])
       ELSE IF guard.raised THEN Raise("RuntimeError Symlink loop")
       ELSE IF ~guard.allowed
       THEN Returned([error |-> "File is not in allowed directories", path |-> file_path])
       ELSE Returned([go |-> "exists"])

\* lf_read_file up to the path check: a result, a fault, or go on
read_file_guard(file_path, loaded, f, raises) ==
    LET guard == is_path_allowed(file_path, loaded.config, f, raises)
    IN IF loaded.raised THEN Raise(loaded.fault)
       ELSE IF loaded.config.allowed_directories = <<>> THEN Returned(NotConfigured)
       ELSE IF guard.raised THEN Raise("RuntimeError Symlink loop")
       ELSE IF ~guard.allowed
       THEN Returned([error |-> "File is not in allowed directories", path |-> file_path])
       ELSE Returned([go |-> "exists"])

\* bytes.decode('utf-8') over one- and two-byte sequences: code points, or
\* invalid (UnicodeDecodeError) for any other byte
RECURSIVE Utf8Valid(_)
Utf8Valid(b) ==
    IF b = <<>> THEN TRUE
    ELSE IF b[1] < 128 THEN Utf8Valid(Tail(b))
    ELSE IF 194 <= b[1] /\ b[1] <= 223 /\ Len(b) >= 2 /\ 128 <= b[2] /\ b[2] <= 191
    THEN Utf8Valid(Tail(Tail(b)))
    ELSE FALSE

RECURSIVE Utf8Decode(_)
Utf8Decode(b) ==
    IF b = <<>> THEN <<>>
    ELSE IF b[1] < 128 THEN <<b[1]>> \o Utf8Decode(Tail(b))
    ELSE <<(b[1] - 192) * 64 + (b[2] - 128)>> \o Utf8Decode(Tail(Tail(b)))

\* text mode with newline=None: "\r\n" and "\r" are read as "\n"
RECURSIVE UniversalNewlines(_)
UniversalNewlines(t) ==
    IF t = <<>> THEN <<>>
    ELSE IF t[1] = 13
    THEN <<10>> \o UniversalNewlines(IF Len(t) >= 2 /\ t[2] = 10 THEN Tail(Tail(t))
                                     ELSE Tail(t))
    ELSE <<t[1]>> \o UniversalNewlines(Tail(t))

\* open(path, 'r', encoding='utf-8').read()
ReadText(b) == UniversalNewlines(Utf8Decode(b))

Pad == 64

\* base64.b64encode: the characters as indices into the base64 alphabet, Pad
\* for "="
RECURSIVE b64encode(_)
b64encode(b) ==
    IF b = <<>> THEN <<>>
    ELSE IF Len(b) = 1
    THEN <<b[1] \div 4, (b[1] % 4) * 16, Pad, Pad>>
    ELSE IF Len(b) = 2
    THEN <<b[1] \div 4, (b[1] % 4) * 16 + b[2] \div 16, (b[2] % 16) * 4, Pad>>
    ELSE <<b[1] \div 4, (b[1] % 4) * 16 + b[2] \div 16,
           (b[2] % 16) * 4 + b[3] \div 64, b[3] % 64>>
         \o b64encode(SubSeq(b, 4, Len(b)))

\* the result mapping of a successful lf_read_file
FileContent(file_path, size, content_type, content) ==
    [file_path |-> PathStr(file_path),
     name |-> NameOf(file_path),
     size |-> size,
     extension |-> Suffix(NameOf(file_path)),
     content_type |-> content_type,
     content |-> content]

ReadError == [error |-> "Error reading file"]

-----------------------------------------------------------------------------
(* The path guard as a function of its inputs *)

PathChars == {"/", ".", "a"}


\* /a with a file, a link out of it and a link onto itself; /aa beside it
PathLayoutA ==
    ( << <<"a">> >> :> Dir ) @@
    ( << <<"a", "a">> >> :> Dir ) @@
    ( << <<"a">>, <<"a">> >> :> File(<<>>) ) @@
    ( << <<"a">>, <<"a", "a">> >> :> Link(<<"/", "a", "a">>) ) @@
    ( << <<"a">>, <<"a", "a", "a">> >> :> Link(<<"a", "a", "a">>) ) @@
    ( << <<"a", "a">>, <<"a">> >> :> File(<<>>) )

\* /a itself a link to /aa
PathLayoutB ==
    ( << <<"a">> >> :> Link(<<"a", "a">>) ) @@
    ( << <<"a", "a">> >> :> Dir ) @@
    ( << <<"a", "a">>, <<"a">> >> :> File(<<>>) )

PathLayouts == {PathLayoutA, PathLayoutB}

PathDirLists ==
    { <<>>,
      << <<"/", "a">> >>,
      << <<"/", "a", "a">>, <<"/", "a">> >>,
      << <<"a">> >>,
      << <<"/", "a", "/", "a", "a">> >>,
      << <<"/", "a", "/", "a", "a", "a">>, <<"/", "a">> >> }

Idle ==
    /\ pc = "idle" /\ result = None /\ readFrom = None /\ readBytes = None

InitPath ==
    /\ environ = [k \in Keys |-> Unset] /\ dotenv = NoDotenv /\ racing = FALSE
    /\ fs \in PathLayouts
    /\ loopRaises \in BOOLEAN
    /\ op = "is_path_allowed"
    /\ arg \in StringsUpTo(PathChars, MaxPathLen)
    /\ config \in {[DefaultConfig EXCEPT !.allowed_directories = d] : d \in PathDirLists}
    /\ Idle

CheckPath ==
    /\ pc = "idle" /\ op = "is_path_allowed"
    /\ LET r == is_path_allowed(arg, config, fs, loopRaises)
       IN /\ result' = r
          /\ pc' = IF r.raised THEN "raised" ELSE "returned"
    /\ UNCHANGED <<environ, dotenv, fs, loopRaises, racing, op, arg, config,
                   readFrom, readBytes>>

SpecPath == InitPath /\ [][CheckPath]_vars

\* the canonical form of d is p or leads p by whole segments
Contains(d, p) == \E k \in 0..Len(p) : [i \in 1..k |-> p[i]] = d

Canon(s) == Resolve(fs, s, loopRaises)

\* C1: is_path_allowed returns true exactly when the canonical form of the path
\* is the canonical form of some allowed directory or lies under it by whole
\* segments; so never for an empty list, never for a path that only shares a
\* string prefix with the root, never for a path leaving the root through "..".
PathGuardContainment ==
    (op = "is_path_allowed" /\ pc = "returned") =>
        LET dirs == config.allowed_directories
        IN /\ result.allowed <=>
                \E i \in 1..Len(dirs) :
                    /\ ~Canon(dirs[i]).raised
                    /\ Contains(Canon(dirs[i]).path, Canon(arg).path)
           /\ dirs = <<>> => ~result.allowed
           /\ ( /\ dirs = << <<"/", "a">> >>
                /\ Kind(fs, << <<"a">> >>) = "dir"
                /\ IsPrefixOf(<<"/", "a">>, arg)
                /\ Segments(arg) # <<>>
                /\ Segments(arg)[1] \notin {<<"a">>, DotDot}
                /\ Kind(fs, <<Segments(arg)[1]>>) # "link" ) => ~result.allowed
           /\ ( /\ Len(dirs) = 1
                /\ IsAbs(dirs[1])
                /\ Segments(dirs[1]) # <<>>
                /\ Canon(dirs[1]).path = Segments(dirs[1])
                /\ arg = dirs[1] \o <<"/", ".", ".">> ) => ~result.allowed

PathGuardWitness ==
    /\ op = "is_path_allowed" /\ pc = "returned"
    /\ config.allowed_directories = << <<"/", "a">> >>
    /\ arg = <<"/", "a", "/", ".", ".">>
    /\ ~result.allowed

-----------------------------------------------------------------------------
(* The file policy as a function of its inputs *)

NameChars == {"x", ".", "t", "T"}

FileNames ==
    {n \in StringsUpTo(NameChars, MaxNameLen) : n \notin {<<>>, <<".">>, DotDot}}

Bytes(n) == [i \in 1..n |-> 65]

ExtensionLists ==
    { <<>>,
      << <<".", "t">> >>,
      << <<".", "T">> >>,
      << <<".", "x">>, <<".", "t">> >> }

InitFile ==
    /\ environ = [k \in Keys |-> Unset] /\ dotenv = NoDotenv /\ racing = FALSE
    /\ loopRaises = TRUE
    /\ op = "is_file_allowed"
    /\ \E name \in FileNames :
          /\ arg = <<"/">> \o name
          /\ fs \in {<<name>> :> NoNode} \cup {<<name>> :> File(Bytes(n)) : n \in 0..2}
    /\ config \in {[DefaultConfig EXCEPT !.max_file_size = m, !.allowed_extensions = e] :
                      m \in 0..1, e \in ExtensionLists}
    /\ Idle

CheckFile ==
    /\ pc = "idle" /\ op = "is_file_allowed"
    /\ result' = [allowed |-> is_file_allowed(arg, config, fs)]
    /\ pc' = "returned"
    /\ UNCHANGED <<environ, dotenv, fs, loopRaises, racing, op, arg, config,
                   readFrom, readBytes>>

SpecFile == InitFile /\ [][CheckFile]_vars

\* C6: is_file_allowed returns true exactly when the size can be read, is at
\* most max_file_size, and allowed_extensions is empty or holds the file's
\* extension, compared without regard to case.
FilePolicyCaseInsensitive ==
    (op = "is_file_allowed" /\ pc = "returned") =>
        LET st == Stat(fs, arg)
            exts == config.allowed_extensions
        IN result.allowed <=>
              /\ st.err = "OK"
              /\ Size(fs, st.path) <= config.max_file_size
              /\ \/ exts = <<>>
                 \/ \E i \in 1..Len(exts) : Lower(exts[i]) = Lower(Suffix(NameOf(arg)))

-----------------------------------------------------------------------------
(* The configuration loader as a function of its sources *)

ValueChars == {",", " ", "1", "d"}

Values == StringsUpTo(ValueChars, MaxValueLen)

OtherValues == { <<"1">>, <<"\"", "2", "\"">> }

Line(k, v) == [key |-> k, value |-> v]

\* the key under test takes every value, in the environment and in the file;
\* the other keys and a second line take a few
InitConfig ==
    /\ fs = <<>> /\ loopRaises = TRUE /\ racing = FALSE
    /\ op = "load_config"
    /\ arg \in Keys
    /\ environ \in {e \in [Keys -> {Unset} \cup {SetTo(v) : v \in Values}] :
                       \A k \in Keys \ {arg} : e[k] \in {Unset, SetTo(<<"1">>)}}
    /\ dotenv \in {NoDotenv, BadDotenv}
                  \cup {Dotenv(<<Line(arg, v)>>) : v \in Values}
                  \cup {Dotenv(<<Line(arg, v), Line(k, w)>>) :
                           v \in Values, k \in Keys \cup {"OTHER"}, w \in OtherValues}
    /\ config = DefaultConfig
    /\ Idle

CheckConfig ==
    /\ pc = "idle" /\ op = "load_config"
    /\ LET r == load_config(environ, dotenv)
       IN /\ result' = r
          /\ pc' = IF r.raised THEN "raised" ELSE "returned"
    /\ UNCHANGED <<environ, dotenv, fs, loopRaises, racing, op, arg, config,
                   readFrom, readBytes>>

SpecConfig == InitConfig /\ [][CheckConfig]_vars

ConfigValue(cfg, k) ==
    IF k = "ALLOWED_DIRECTORIES" THEN cfg.allowed_directories
    ELSE IF k = "MAX_FILE_SIZE" THEN cfg.max_file_size
    ELSE cfg.allowed_extensions

ParseValue(k, v) == IF k = "MAX_FILE_SIZE" THEN IntOf(v) ELSE ParseList(v)

LinesFor(k) == SelectSeq(dotenv.lines, LAMBDA l : l.key = k)

\* the value the three layers give key k: environment, else file, else default
LayeredValue(k) ==
    IF environ[k].set THEN ParseValue(k, environ[k].value)
    ELSE IF LinesFor(k) # <<>>
    THEN ParseValue(k, StripChars(Strip(LinesFor(k)[Len(LinesFor(k))].value), {"\"", "'"}))
    ELSE ConfigValue(DefaultConfig, k)

\* C8: for each key, load_config returns the environment's value when the
\* variable is set, else the file's when the file defines the key, else the
\* default; lists are split on commas, trimmed, empty entries dropped.
ConfigLayering ==
    (op = "load_config" /\ pc = "returned") =>
        \A k \in Keys : ConfigValue(result.config, k) = LayeredValue(k)

-----------------------------------------------------------------------------
(* The three operations, called in any order, with the configuration sources
   and the filesystem changing in between *)

FT == << <<"a">>, <<"f", ".", "t", "x", "t">> >>

Secret == <<"/", "b", "/", "s", ".", "t", "x", "t">>

\* /a: f.txt, l.txt (a link to /b/s.txt), k (a link onto itself), d/g.txt; /b: s.txt
OpsLayout(node) ==
    ( << <<"a">> >> :> Dir ) @@
    ( FT :> node ) @@
    ( << <<"a">>, <<"l", ".", "t", "x", "t">> >> :> Link(Secret) ) @@
    ( << <<"a">>, <<"k">> >> :> Link(<<"k">>) ) @@
    ( << <<"a">>, <<"d">> >> :> Dir ) @@
    ( << <<"a">>, <<"d">>, <<"g", ".", "t", "x", "t">> >> :> File(<<65>>) ) @@
    ( << <<"b">> >> :> Dir ) @@
    ( << <<"b">>, <<"s", ".", "t", "x", "t">> >> :> File(<<83, 83>>) )

OpsData == { <<65>>, <<195>>, <<65, 66>> }

ReadArgs ==
    { <<"/", "a", "/", "f", ".", "t", "x", "t">>,
      <<"a", "/", "f", ".", "t", "x", "t">>,
      <<"/", "a", "/", "l", ".", "t", "x", "t">>,
      <<"/", "a", "/", "x", ".", "t", "x", "t">>,
      <<"/", "a", "/", "d">>,
      <<"/", "a", "/", "k">>,
      <<"/", "a", "/", ".", ".", "/", "b", "/", "s", ".", "t", "x", "t">>,
      Secret,
      <<"/", "n">> }

ListArgs ==
    { <<>>,
      <<"/", "a">>,
      <<"/", "a", "/", "d">>,
      <<"/", "a", "/", "x">>,
      <<"/", "a", "/", "f", ".", "t", "x", "t">>,
      <<"/", "a", "/", "k">>,
      <<"/", "b">> }

EnvChoices(k) ==
    IF k = "ALLOWED_DIRECTORIES"
    THEN {Unset, SetTo(<<"/", "a">>), SetTo(<<"/", "n", ",", "/", "a">>),
          SetTo(<<"/", "a", "/", "f", ".", "t", "x", "t", ",", " ", "/", "a", "/", "d">>)}
    ELSE IF k = "MAX_FILE_SIZE" THEN {Unset, SetTo(<<"1">>), SetTo(<<"x">>)}
    ELSE {Unset, SetTo(<<" ">>)}

DotenvChoices ==
    {NoDotenv, BadDotenv, Dotenv(<<Line("ALLOWED_DIRECTORIES", <<"/", "a">>)>>)}

InProgress == {"exists", "is_file", "policy", "open_text", "open_binary", "stat"}

Init ==
    /\ environ \in {e \in [Keys -> {Unset} \cup UNION {EnvChoices(k) : k \in Keys}] :
                       \A k \in Keys : e[k] \in EnvChoices(k)}
    /\ dotenv \in DotenvChoices
    /\ fs \in {OpsLayout(File(d)) : d \in OpsData}
    /\ loopRaises \in BOOLEAN
    /\ racing = FALSE
    /\ op = "none" /\ arg = <<>> /\ config = DefaultConfig
    /\ Idle

World == <<environ, dotenv, fs, loopRaises, racing>>

\* an atomic call ends returned or raised
Finish(name, a, cfg, outcome) ==
    /\ op' = name /\ arg' = a /\ config' = cfg
    /\ result' = outcome.value
    /\ pc' = IF outcome.raised THEN "raised" ELSE "returned"
    /\ readFrom' = None /\ readBytes' = None
    /\ UNCHANGED World

lf_list_files(directory_path) ==
    /\ pc \notin InProgress
    /\ Finish("lf_list_files", directory_path, load_config(environ, dotenv).config,
              list_files(directory_path, environ, dotenv, fs, loopRaises))

lf_get_config ==
    /\ pc \notin InProgress
    /\ Finish("lf_get_config", <<>>, load_config(environ, dotenv).config,
              get_config(environ, dotenv))

\* lf_read_file(file_path): load_config, the configured check, the path guard
lf_read_file(file_path) ==
    /\ pc \notin InProgress
    /\ LET loaded == load_config(environ, dotenv)
           outcome == read_file_guard(file_path, loaded, fs, loopRaises)
       IN /\ op' = "lf_read_file" /\ arg' = file_path /\ config' = loaded.config
          /\ IF ~outcome.raised /\ "go" \in DOMAIN outcome.value
             THEN pc' = "exists" /\ result' = None
             ELSE /\ pc' = IF outcome.raised THEN "raised" ELSE "returned"
                  /\ result' = outcome.value
    /\ readFrom' = None /\ readBytes' = None
    /\ UNCHANGED World

\* one step of lf_read_file: on to pc `next`, or a returned error
Step(ok, next, error) ==
    /\ IF ok THEN pc' = next /\ result' = result
       ELSE pc' = "returned" /\ result' = error
    /\ UNCHANGED <<environ, dotenv, fs, loopRaises, racing, op, arg, config,
                   readFrom, readBytes>>

ReadExists ==
    /\ pc = "exists"
    /\ Step(Exists(fs, arg), "is_file", [error |-> "File does not exist."])

ReadIsFile ==
    /\ pc = "is_file"
    /\ Step(IsFile(fs, arg), "policy", [error |-> "Path is not a file."])

ReadPolicy ==
    /\ pc = "policy"
    /\ Step(is_file_allowed(arg, config, fs), "open_text",
            [error |-> "File is not allowed (size or extension restrictions)."])

\* open(path, 'r', encoding='utf-8') and f.read()
ReadOpenText ==
    /\ pc = "open_text"
    /\ IF ~IsFile(fs, arg)
       THEN pc' = "returned" /\ result' = ReadError /\ UNCHANGED <<readFrom, readBytes>>
       ELSE LET node == Stat(fs, arg).path
                bytes == fs[node].data
            IN /\ readFrom' = node
               /\ readBytes' = bytes
               /\ IF Utf8Valid(bytes)
                  THEN /\ pc' = "stat"
                       /\ result' = [content_type |-> "text", content |-> ReadText(bytes)]
                  ELSE pc' = "open_binary" /\ result' = result
    /\ UNCHANGED <<environ, dotenv, fs, loopRaises, racing, op, arg, config>>

\* open(path, 'rb') and base64.b64encode(f.read())
ReadOpenBinary ==
    /\ pc = "open_binary"
    /\ IF ~IsFile(fs, arg)
       THEN pc' = "returned" /\ result' = ReadError /\ UNCHANGED <<readFrom, readBytes>>
       ELSE LET node == Stat(fs, arg).path
                bytes == fs[node].data
            IN /\ readFrom' = node
               /\ readBytes' = bytes
               /\ pc' = "stat"
               /\ result' = [content_type |-> "binary_base64", content |-> b64encode(bytes)]
    /\ UNCHANGED <<environ, dotenv, fs, loopRaises, racing, op, arg, config>>

\* path.stat() and the returned mapping
ReadStat ==
    /\ pc = "stat"
    /\ pc' = "returned"
    /\ result' = IF ~Exists(fs, arg) THEN ReadError
                 ELSE FileContent(arg, Size(fs, Stat(fs, arg).path),
                                  result.content_type, result.content)
    /\ UNCHANGED <<environ, dotenv, fs, loopRaises, racing, op, arg, config,
                   readFrom, readBytes>>

\* a change made from outside: between calls, or during one when racing
Outside ==
    /\ racing \/ pc \notin InProgress
    /\ IF pc \in InProgress
       THEN UNCHANGED <<pc, op, arg, config, result, readFrom, readBytes>>
       ELSE /\ op' = "none" /\ arg' = <<>> /\ config' = DefaultConfig
            /\ pc' = "idle" /\ result' = None /\ readFrom' = None /\ readBytes' = None
    /\ UNCHANGED <<loopRaises, racing>>

SetEnv ==
    /\ Outside
    /\ \E k \in Keys : \E v \in EnvChoices(k) : environ' = [environ EXCEPT ![k] = v]
    /\ UNCHANGED <<dotenv, fs>>

WriteDotenv ==
    /\ Outside
    /\ dotenv' \in DotenvChoices
    /\ UNCHANGED <<environ, fs>>

WriteFile ==
    /\ Outside
    /\ \E d \in OpsData : fs' = [fs EXCEPT ![FT] = File(d)]
    /\ UNCHANGED <<environ, dotenv>>

LinkFile ==
    /\ Outside
    /\ fs' = [fs EXCEPT ![FT] = Link(Secret)]
    /\ UNCHANGED <<environ, dotenv>>

RemoveFile ==
    /\ Outside
    /\ fs' = [fs EXCEPT ![FT] = NoNode]
    /\ UNCHANGED <<environ, dotenv>>

ReadSteps ==
    \/ ReadExists
    \/ ReadIsFile
    \/ ReadPolicy
    \/ ReadOpenText
    \/ ReadOpenBinary
    \/ ReadStat

Next ==
    \/ \E d \in ListArgs : lf_list_files(d)
    \/ lf_get_config
    \/ \E p \in ReadArgs : lf_read_file(p)
    \/ ReadSteps
    \/ SetEnv
    \/ WriteDotenv
    \/ WriteFile
    \/ LinkFile
    \/ RemoveFile

Spec == Init /\ [][Next]_vars

\* some allowed directory's canonical form contains the canonical form of s
InsideRoots(s) ==
    \E i \in 1..Len(config.allowed_directories) :
        /\ ~Canon(config.allowed_directories[i]).raised
        /\ Contains(Canon(config.allowed_directories[i]).path, Canon(s).path)

IsError(r) == "error" \in DOMAIN r

\* C2: every file entry lf_list_files returns is, canonically, inside an
\* allowed directory, within max_file_size, and of an allowed extension.
ListedFilesInsideRoots ==
    (op = "lf_list_files" /\ pc = "returned" /\ ~IsError(result)) =>
        \A i \in 1..Len(result.directories) :
            LET rec == result.directories[i]
            IN ~IsError(rec) =>
                  \A j \in 1..Len(rec.files) :
                      /\ InsideRoots(rec.files[j].path)
                      /\ rec.files[j].size <= config.max_file_size
                      /\ \/ config.allowed_extensions = <<>>
                         \/ Lower(rec.files[j].extension) \in Elems(config.allowed_extensions)

\* the error of the first of the five checks of lf_read_file that fails
FirstFailedCheck ==
    IF config.allowed_directories = <<>> THEN NotConfigured
    ELSE IF ~InsideRoots(arg)
    THEN [error |-> "File is not in allowed directories", path |-> arg]
    ELSE IF ~Exists(fs, arg) THEN [error |-> "File does not exist."]
    ELSE IF ~IsFile(fs, arg) THEN [error |-> "Path is not a file."]
    ELSE IF ~is_file_allowed(arg, config, fs)
    THEN [error |-> "File is not allowed (size or extension restrictions)."]
    ELSE [passed |-> TRUE]

\* C3: lf_read_file returns content only when all five checks pass, and
\* otherwise the error of the first check that fails: configured, path
\* allowed (naming the path), exists, is a file, file allowed.
ReadChecksInOrder ==
    (op = "lf_read_file" /\ pc = "returned") =>
        /\ ~IsError(result) => ~IsError(FirstFailedCheck)
        /\ IsError(FirstFailedCheck) => result = FirstFailedCheck

ReadChecksWitness ==
    /\ op = "lf_read_file" /\ pc = "returned"
    /\ arg = <<"/", "a", "/", "f", ".", "t", "x", "t">>
    /\ Kind(fs, FT) = "file" /\ Size(fs, FT) > config.max_file_size
    /\ result = [error |-> "File is not allowed (size or extension restrictions)."]

\* the scan set of a listing call
ScanSet == IF arg # <<>> THEN <<arg>> ELSE config.allowed_directories

\* C4: with directories configured and directory_path omitted or allowed,
\* lf_list_files does not raise and returns one record per directory of the
\* scan set, in order: an error record exactly for a directory that does not
\* exist or is not a directory, else its files with their count; and
\* total_directories is the size of the scan set.
ListOneRecordPerDirectory ==
    ( /\ op = "lf_list_files"
      /\ pc \in {"returned", "raised"}
      /\ ~load_config(environ, dotenv).raised
      /\ config.allowed_directories # <<>>
      /\ arg # <<>> => is_path_allowed(arg, config, fs, loopRaises).allowed ) =>
        /\ pc = "returned"
        /\ ~IsError(result)
        /\ result.allowed_directories = config.allowed_directories
        /\ Len(result.directories) = Len(ScanSet)
        /\ result.total_directories = Len(ScanSet)
        /\ \A i \in 1..Len(ScanSet) :
              LET rec == result.directories[i]
              IN /\ rec.directory = ScanSet[i]
                 /\ IsError(rec) <=> ~(Exists(fs, ScanSet[i]) /\ IsDir(fs, ScanSet[i]))
                 /\ ~IsError(rec) => rec.total_files = Len(rec.files)

ListMixedWitness ==
    /\ op = "lf_list_files" /\ pc = "returned" /\ arg = <<>>
    /\ ~IsError(result)
    /\ Len(result.directories) = 2
    /\ IsError(result.directories[1])
    /\ ~IsError(result.directories[2])
    /\ result.directories[2].total_files >= 1

\* C7: whatever fails in lf_list_files or lf_read_file comes back as a mapping
\* with an error field; the only fault raised is the parse error of a
\* non-numeric MAX_FILE_SIZE.
OnlyParseFaultRaised ==
    (op \in {"lf_list_files", "lf_read_file"} /\ pc = "raised") =>
        result.fault = "ValueError MAX_FILE_SIZE"

\* C9: lf_get_config reports the configuration its sources give at the call,
\* with status "configured" exactly when the allowed-directory list is not
\* empty, and leaves the sources and the filesystem as they were.
GetConfigFreshAndReadOnly ==
    [][ (op' = "lf_get_config" /\ pc' \in {"returned", "raised"}) =>
            /\ UNCHANGED <<environ, dotenv, fs>>
            /\ pc' = "returned" =>
                  LET now == load_config(environ', dotenv').config
                  IN /\ result'.allowed_directories = now.allowed_directories
                     /\ result'.max_file_size = now.max_file_size
                     /\ result'.allowed_extensions = now.allowed_extensions
                     /\ result'.status = "configured" <=> now.allowed_directories # <<>>
      ]_vars

GetConfigWitness ==
    /\ op = "lf_get_config" /\ pc = "returned"
    /\ result.status = "not_configured"
    /\ result.allowed_extensions = <<>>
    /\ result.max_file_size = 1

-----------------------------------------------------------------------------
(* lf_read_file over every file content *)

ContentBytes == {10, 13, 65, 195, 169}

TheFile == <<"/", "a", "/", "f", ".", "t", "x", "t">>

InitContent ==
    /\ environ = [k \in Keys |-> IF k = "ALLOWED_DIRECTORIES" THEN SetTo(<<"/", "a">>)
                                 ELSE Unset]
    /\ dotenv = NoDotenv
    /\ fs \in {OpsLayout(File(d)) : d \in StringsUpTo(ContentBytes, MaxDataLen)}
    /\ loopRaises = TRUE
    /\ racing = FALSE
    /\ op = "none" /\ arg = <<>> /\ config = DefaultConfig
    /\ Idle

NextContent ==
    \/ lf_read_file(TheFile)
    \/ ReadSteps

SpecContent == InitContent /\ [][NextContent]_vars

\* base64.b64decode of indices into the base64 alphabet
RECURSIVE b64decode(_)
b64decode(c) ==
    IF c = <<>> THEN <<>>
    ELSE LET n == c[1] * 64 + c[2]
         IN IF c[3] = Pad THEN <<n \div 16>>
            ELSE IF c[4] = Pad THEN <<n \div 16, ((n % 16) * 64 + c[3]) \div 4>>
            ELSE <<n \div 16, ((n % 16) * 64 + c[3]) \div 4, (c[3] % 4) * 64 + c[4]>>
                 \o b64decode(SubSeq(c, 5, Len(c)))

\* C5: a permitted file of valid UTF-8 is returned as "text" with exactly its
\* decoded content, carriage returns included; any other as "binary_base64"
\* whose base64 decoding is exactly the file's bytes.
ContentRoundTrip ==
    (op = "lf_read_file" /\ pc = "returned" /\ ~IsError(result)) =>
        LET bytes == fs[FT].data
        IN IF Utf8Valid(bytes)
           THEN result.content_type = "text" /\ result.content = Utf8Decode(bytes)
           ELSE /\ result.content_type = "binary_base64"
                /\ b64decode(result.content) = bytes

-----------------------------------------------------------------------------
(* lf_read_file with another process working on the file meanwhile *)

InitRace ==
    /\ environ = [k \in Keys |->
                     IF k = "ALLOWED_DIRECTORIES" THEN SetTo(<<"/", "a">>)
                     ELSE IF k = "MAX_FILE_SIZE" THEN SetTo(<<"1">>)
                     ELSE Unset]
    /\ dotenv = NoDotenv
    /\ fs \in {OpsLayout(File(d)) : d \in OpsData}
    /\ loopRaises = TRUE
    /\ racing = TRUE
    /\ op = "none" /\ arg = <<>> /\ config = DefaultConfig
    /\ Idle

RaceArgs == {TheFile, <<"a", "/", "f", ".", "t", "x", "t">>, <<"/", "a", "/", "d", "/", "g", ".", "t", "x", "t">>}

NextRace ==
    \/ \E p \in RaceArgs : lf_read_file(p)
    \/ ReadSteps
    \/ WriteFile
    \/ LinkFile
    \/ RemoveFile

SpecRace == InitRace /\ [][NextRace]_vars

\* C10: whatever another process does to the file between the steps of one
\* lf_read_file, a successful result carries at most max_file_size bytes, read
\* from a file inside an allowed root, and reports the size of what was read.
RacedReadWithinPolicy ==
    (op = "lf_read_file" /\ pc = "returned" /\ ~IsError(result)) =>
        /\ Len(readBytes) <= config.max_file_size
        /\ \E i \in 1..Len(config.allowed_directories) :
               Contains(Canon(config.allowed_directories[i]).path, readFrom)
        /\ result.size = Len(readBytes)

====
